---- MODULE Spec2Model ----
(***************************************************************************)
(* Disk-resident R-tree (RTree.h, Node.h, Type.h).                         *)
(*                                                                         *)
(* The index file is modelled at the granularity of 8-byte words: `mem'    *)
(* is the sequence of the words of the file (the word at byte offset o is  *)
(* mem[o \div 8 + 1]; a freshly grown region reads 0), `fsize' is the file *)
(* size in bytes.  A node is read and written through a NodeHandler        *)
(* exactly as Node.h does it: by pointer arithmetic from the block's first *)
(* byte, with the strides of the handler.                                  *)
(***************************************************************************)
EXTENDS Integers, Sequences, FiniteSets, Bags, TLC

VARIABLES
    fexists,    \* the index file exists in the directory
    mem,        \* file contents: the sequence of its 8-byte words
    fsize,      \* file size in bytes
    running,    \* a process holds an RTree object on the file
    rt,         \* that RTree object (NoObject when no process runs)
    stored,     \* history: bag of <<key, value>> inserted and not yet removed
    oracle,     \* the test harness's BruteForceSearch::data, kept by the client
    ninserts,   \* the number of Insert calls so far
    ndeletes    \* the number of entries Delete has removed so far

vars == <<fexists, mem, fsize, running, rt, stored, oracle, ninserts, ndeletes>>

----------------------------------------------------------------------------
(* Program constants and the configuration the index is created with.      *)

PAGE_UNIT == 4096
INVALID_ROOT_ADDR == 0
\* sizeof(NodeHeader): BlockType (4 bytes + 4 padding), entry_count_, in_file_addr_
SizeofNodeHeader == 24
\* sizeof(KeyT) and sizeof(uint64_t)
SizeofKeyT == 8
SizeofU64 == 8

\* The schema the index is created with (the arguments of RTree::create).
\* K = 2 * D * sizeof(coordinate), and D is chosen so that a 4096-byte block
\* holds two entries, leaf or inner: (4096 - 24) \div (1360 + 8) = 2.
Dimensions == 85
key_size == 2 * Dimensions * SizeofKeyT
value_size == 8
block_size == 4096

\* Bounds of the model.
MaxInserts == 4
MaxBlocks == 7
MaxDeletes == 1
MaxDepth == 4

\* The rectangles the client works with: [x0, x1] x [y0, y1] on the first two
\* axes and [0, 1] on every other axis, laid out [lo_0 .. lo_{D-1}, hi_0 .. hi_{D-1}].
Rect(x0, y0, x1, y1) ==
    <<>> \o [i \in 1..(2 * Dimensions) |->
        IF i = 1 THEN x0
        ELSE IF i = 2 THEN y0
        ELSE IF i <= Dimensions THEN 0
        ELSE IF i = Dimensions + 1 THEN x1
        ELSE IF i = Dimensions + 2 THEN y1
        ELSE 1]

Keys == { Rect(0, 0, 1, 1), Rect(2, 2, 3, 3), Rect(0, 0, 3, 3) }
\* the i-th Insert call of the client carries the value i
Values == 1..MaxInserts
\* the degenerate rectangle at the origin, which no client inserts
Origin == <<>> \o [i \in 1..(2 * Dimensions) |-> 0]

----------------------------------------------------------------------------
(* The mapped file.                                                        *)

WordBytes == 8
\* the index in mem of the word at byte offset off
W(off) == (off \div WordBytes) + 1

Zeros(n) == [i \in 1..n |-> 0]

\* the word at byte offset off; a word past the end of the file reads 0
\* (the callers decide separately whether such a read faults)
Rd(m, off) == IF W(off) <= Len(m) THEN m[W(off)] ELSE 0

\* store of one word inside the file
Wr(m, off, v) == IF W(off) <= Len(m) THEN [m EXCEPT ![W(off)] = v] ELSE m

\* a faulty memmove that copies nothing
MemMoveDown_none(m, dst, by, len) == m

\* memmove(dst, dst + by, len) on the words of the file
MemMoveDown(m, dst, by, len) ==
    SubSeq(m, 1, W(dst) - 1)
        \o SubSeq(m, W(dst + by), W(dst + by + len) - 1)
        \o SubSeq(m, W(dst + len), Len(m))

----------------------------------------------------------------------------
(* Type.h: KeyType<T>, a flat vector [lo_0 .. lo_{D-1}, hi_0 .. hi_{D-1}]. *)

Min(a, b) == IF a <= b THEN a ELSE b
Max(a, b) == IF a >= b THEN a ELSE b

\* the product f[lo] * ... * f[hi] that the loops `res *= ...' accumulate
\* (1 when the range is empty), multiplied in halves
RECURSIVE ProdOver(_, _, _)
ProdOver(f, lo, hi) ==
    IF lo > hi THEN 1
    ELSE IF lo = hi THEN f[lo]
    ELSE ProdOver(f, lo, (lo + hi) \div 2) * ProdOver(f, ((lo + hi) \div 2) + 1, hi)

\* KeyType::size(): the number of coordinates
size(k) == Len(k)

\* KeyType::enlargement: the area of the union of the two rectangles
enlargement(a, b) ==
    LET h == size(a) \div 2
    IN  ProdOver([i \in 1..h |-> Max(a[h + i], b[h + i]) - Min(a[i], b[i])], 1, h)

area(a) ==
    LET h == size(a) \div 2
    IN  ProdOver([i \in 1..h |-> a[h + i] - a[i]], 1, h)

\* a faulty mbr_enlarge that leaves the rectangle as it was
mbr_enlarge_kept(a, b) == a

mbr_enlarge(a, b) ==
    LET h == size(a) \div 2
    IN  <<>> \o [i \in 1..size(a) |-> IF i <= h THEN Min(a[i], b[i]) ELSE Max(a[i], b[i])]

\* operator>= : a contains b.  (Its assertion, on which every caller's
\* outcome is conditioned, makes the two sizes the same number.)
KeyGe(a, b) ==
    LET h == size(b) \div 2
    IN  \A i \in 1..h : ~(a[i] > b[i]) /\ ~(a[h + i] < b[h + i])

KeyEq(a, b) == \A i \in 1..size(a) : a[i] = b[i]

IsOverlap(a, b) ==
    LET h == size(b) \div 2
    IN  \A i \in 1..h : a[i] <= b[h + i] /\ a[h + i] >= b[i]

----------------------------------------------------------------------------
(* Node.h: NodeHeader and NodeHandler.  A handler is the pointer to the    *)
(* block's first byte (an offset into the file) plus the strides.          *)

NodeHandler(header, ks, vs, bs, dims) ==
    [header_ |-> header, key_size_ |-> ks, value_size_ |-> vs,
     block_size_ |-> bs, dimensions_ |-> dims]

\* BlockType::LeafBlock = 0, InnerBlock = 1; block_type_ is the 4-byte int
\* at offset 0, entry_count_ the word at 8, in_file_addr_ the word at 16.
LeafBlock == 0
InnerBlock == 1

\* block_type_ of the block at a byte offset: the low four bytes of its first
\* word.  Every word of the model is below 2^31, so that is the word itself.
block_type_(m, address) == Rd(m, address)

IsLeafBlock(m, h) == block_type_(m, h.header_) = LeafBlock
get_count(m, h) == Rd(m, h.header_ + 8)
set_count(m, h, c) == Wr(m, h.header_ + 8, c)
get_in_file_addr(m, h) == Rd(m, h.header_ + 16)

\* *header = NodeHeader{block_type, entry_count, in_file_addr}
WriteNodeHeader(m, addr, bt, cnt, ifa) ==
    Wr(Wr(Wr(m, addr, bt), addr + 8, cnt), addr + 16, ifa)

get_pair_size(h) == h.key_size_ + h.value_size_

get_entry_capacity(h) == (h.block_size_ - SizeofNodeHeader) \div get_pair_size(h)

is_full(m, h) == get_count(m, h) >= get_entry_capacity(h)

\* header_ + sizeof(NodeHeader) + idx * get_pair_size()
get_elem_ptr(h, idx) == h.header_ + SizeofNodeHeader + idx * get_pair_size(h)

\* get_elem_key asserts idx < get_count(); the callers below test
\* get_elem_key_pre before they read.
get_elem_key_pre(m, h, idx) == idx < get_count(m, h)

get_elem_key(m, h, idx) ==
    LET first == W(get_elem_ptr(h, idx))
        n == h.dimensions_ * 2
    IN  IF first + n - 1 <= Len(m)
        THEN SubSeq(m, first, first + n - 1)
        ELSE [i \in 1..n |-> Rd(m, get_elem_ptr(h, idx) + (i - 1) * SizeofKeyT)]

get_elem_value(m, h, idx) == Rd(m, get_elem_ptr(h, idx) + h.key_size_)

get_elem_pair(m, h, idx) ==
    [key |-> get_elem_key(m, h, idx), value |-> get_elem_value(m, h, idx)]

\* the coordinates of `key' written at byte offset `off'
WriteKey(m, off, key) ==
    IF W(off) + Len(key) - 1 <= Len(m)
    THEN SubSeq(m, 1, W(off) - 1) \o key \o SubSeq(m, W(off) + Len(key), Len(m))
    ELSE m

\* set_elem_key: [st, m]; "abort" when one of its assertions fails
set_elem_key(m, h, key, idx) ==
    IF idx < get_count(m, h) /\ size(key) = h.dimensions_ * 2
    THEN [st |-> "ok", m |-> WriteKey(m, get_elem_ptr(h, idx), key)]
    ELSE [st |-> "abort", m |-> m]

\* a faulty delete_elem_key that drops the count and moves no slot
delete_elem_key_unmoved(m, h, idx) ==
    IF idx >= get_count(m, h) THEN m ELSE set_count(m, h, get_count(m, h) - 1)

\* delete_elem_key: the slots after idx move down by one, count drops by one
delete_elem_key(m, h, idx) ==
    LET count == get_count(m, h)
        dest_ptr == get_elem_ptr(h, idx)
        move_size == (count - idx - 1) * get_pair_size(h)
    IN  IF idx >= count THEN m
        ELSE set_count(IF move_size > 0
                       THEN MemMoveDown(m, dest_ptr, get_pair_size(h), move_size)
                       ELSE m,
                       h, count - 1)

\* memcpy(value_ptr, kvp.value, vs): a client value is the word v followed by
\* zero bytes up to vs
WriteValue(m, off, v, vs) ==
    IF vs <= WordBytes THEN Wr(m, off, v)
    ELSE IF W(off + vs) - 1 <= Len(m)
    THEN SubSeq(m, 1, W(off) - 1) \o <<v>> \o Zeros((vs \div WordBytes) - 1)
             \o SubSeq(m, W(off + vs), Len(m))
    ELSE m

\* insert: [st, m]; "abort" when one of its assertions fails
insert(m, h, kvp) ==
    LET entry_count == get_count(m, h)
        insert_ptr == get_elem_ptr(h, entry_count)
        value_ptr == insert_ptr + h.dimensions_ * 2 * SizeofKeyT
    IN  IF entry_count < get_entry_capacity(h) /\ size(kvp.key) = h.dimensions_ * 2
        THEN [st |-> "ok",
              m |-> set_count(
                      IF h.value_size_ > 0
                      THEN WriteValue(WriteKey(m, insert_ptr, kvp.key), value_ptr,
                                      kvp.value, h.value_size_)
                      ELSE WriteKey(m, insert_ptr, kvp.key),
                      h, entry_count + 1)]
        ELSE [st |-> "abort", m |-> m]

\* a faulty clear that resets the whole node header but the block type
clear_header(m, h) == WriteNodeHeader(m, h.header_, block_type_(m, h.header_), 0, 0)

clear(m, h) == set_count(m, h, 0)

----------------------------------------------------------------------------
(* The block store (MMAPCache::FileCache) and the engine's accessors.      *)
(* An RTree object is [fd, key_size_, value_size_, block_size_,            *)
(* dimensions_].                                                           *)

RTreeObject(fd, ks, vs, bs, dims) ==
    [fd |-> fd, key_size_ |-> ks, value_size_ |-> vs,
     block_size_ |-> bs, dimensions_ |-> dims]

\* FileCache::get_block returns a block's bytes, or nullptr when the
\* descriptor is invalid, the offset is not block-aligned or is past the end
get_block_ok(t, sz, address) ==
    /\ t.fd # -1
    /\ address >= 0
    /\ address % t.block_size_ = 0
    /\ address < sz

\* get_address<T>(address) calls abort() when get_block returns nullptr
get_address_ok(t, sz, address) == get_block_ok(t, sz, address)

\* get_header()->root_addr: the fifth word of block 0
RootAddrOff == 32
get_root_addr(m) == Rd(m, RootAddrOff)

\* a faulty get_node_handler that gives every node the caller's value size
get_node_handler_flat(m, t, address) ==
    NodeHandler(address, t.key_size_, t.value_size_, t.block_size_, t.dimensions_)

get_node_handler(m, t, address) ==
    NodeHandler(address, t.key_size_,
                IF block_type_(m, address) = LeafBlock
                THEN t.value_size_ ELSE SizeofU64,
                t.block_size_, t.dimensions_)

\* a faulty allocator that hands out the last block of the file again
allocate_block_again(t, m, sz) ==
    [block |-> sz - t.block_size_, m |-> m, sz |-> sz]

\* allocate_block: the new block's offset is the old file size; the file
\* grows by one block of zero bytes
allocate_block(t, m, sz) ==
    [block |-> sz, m |-> m \o Zeros(t.block_size_ \div WordBytes),
     sz |-> sz + t.block_size_]

\* A slot whose bytes lie (partly) past the end of the file: reading it is
\* outside every block the store hands out.  `oob' is what such a read does:
\* "fault" (the process dies) or "zero" (it reads zero bytes).
SlotBeyondFile(h, idx, sz) == get_elem_ptr(h, idx) + get_pair_size(h) > sz

SetMin(S) == CHOOSE x \in S : \A y \in S : x <= y

Died(st) == [st |-> st, res |-> <<>>]

\* search(key, handler, res, mode): [st, res], the entries in visiting order
RECURSIVE search(_, _, _, _, _, _, _, _)
RECURSIVE search_inner(_, _, _, _, _, _, _, _, _, _)
search(m, sz, t, h, key, mode, oob, fuel) ==
    LET entry_cnt == get_count(m, h)
        hit(i) == LET mbr == get_elem_key(m, h, i)
                  IN  \/ mode = "overlap" /\ IsOverlap(mbr, key)
                      \/ mode = "comprise" /\ KeyGe(key, mbr)
    IN  IF IsLeafBlock(m, h)
        THEN IF oob = "fault" /\ \E i \in 0..(entry_cnt - 1) : SlotBeyondFile(h, i, sz)
             THEN Died("crash")
             ELSE [st |-> "ok",
                   res |-> LET all == [i \in 1..entry_cnt |-> i - 1]
                               Keep(i) == hit(i)
                               idxs == SelectSeq(all, Keep)
                           IN  [n \in 1..Len(idxs) |-> get_elem_pair(m, h, idxs[n])]]
        ELSE search_inner(m, sz, t, h, key, mode, oob, fuel, 0, <<>>)

\* a faulty inner loop that, in comprise mode, descends only into the entries
\* whose key contains the query
RECURSIVE search_inner_contains(_, _, _, _, _, _, _, _, _, _)
search_inner_contains(m, sz, t, h, key, mode, oob, fuel, i, acc) ==
    LET entry_cnt == get_count(m, h)
        Stop(n) == \/ oob = "fault" /\ SlotBeyondFile(h, n, sz)
                   \/ mode = "overlap" /\ IsOverlap(get_elem_key(m, h, n), key)
                   \/ mode = "comprise" /\ KeyGe(get_elem_key(m, h, n), key)
        j == IF \E n \in i..(entry_cnt - 1) : Stop(n)
             THEN CHOOSE n \in i..(entry_cnt - 1) : Stop(n) /\ \A k \in i..(n - 1) : ~Stop(k)
             ELSE -1
    IN  IF j = -1 THEN [st |-> "ok", res |-> acc]
        ELSE LET next_addr == get_elem_value(m, h, j)
             IN  IF oob = "fault" /\ SlotBeyondFile(h, j, sz) THEN Died("crash")
                 ELSE IF ~get_address_ok(t, sz, next_addr) THEN Died("abort")
                 ELSE IF fuel = 0 THEN Died("crash")
                 ELSE LET r == search(m, sz, t, get_node_handler(m, t, next_addr),
                                      key, mode, oob, fuel - 1)
                      IN  IF r.st # "ok" THEN r
                          ELSE search_inner_contains(m, sz, t, h, key, mode, oob, fuel,
                                                     j + 1, acc \o r.res)

\* the loop of search over the entries i, i+1, ... of an inner node
search_inner(m, sz, t, h, key, mode, oob, fuel, i, acc) ==
    LET entry_cnt == get_count(m, h)
        Stop(n) == \/ oob = "fault" /\ SlotBeyondFile(h, n, sz)
                   \/ IsOverlap(get_elem_key(m, h, n), key)
        \* where the loop over the entries leaves: the first index with Stop, or -1
        j == IF \E n \in i..(entry_cnt - 1) : Stop(n)
             THEN CHOOSE n \in i..(entry_cnt - 1) : Stop(n) /\ \A k \in i..(n - 1) : ~Stop(k)
             ELSE -1
    IN  IF j = -1 THEN [st |-> "ok", res |-> acc]
        ELSE LET next_addr == get_elem_value(m, h, j)
             IN  IF oob = "fault" /\ SlotBeyondFile(h, j, sz) THEN Died("crash")
                 ELSE IF ~get_address_ok(t, sz, next_addr) THEN Died("abort")
                 ELSE IF fuel = 0 THEN Died("crash")
                 ELSE LET r == search(m, sz, t, get_node_handler(m, t, next_addr),
                                      key, mode, oob, fuel - 1)
                      IN  IF r.st # "ok" THEN r
                          ELSE search_inner(m, sz, t, h, key, mode, oob, fuel,
                                            j + 1, acc \o r.res)

\* FindLeaf(ctx, cur_handler, key): [st, path]; path holds the frames
\* <<in_file_address, entry_index>> pushed on ctx->path from cur_handler down,
\* and is empty when FindLeaf returns nullptr
NotFound == [st |-> "ok", path |-> <<>>]
DiedPath(st) == [st |-> st, path |-> <<>>]

RECURSIVE FindLeaf(_, _, _, _, _, _, _)
RECURSIVE FindLeaf_inner(_, _, _, _, _, _, _, _)
FindLeaf(m, sz, t, h, key, oob, fuel) ==
    LET cnt == get_count(m, h)
        Stop(n) == \/ oob = "fault" /\ SlotBeyondFile(h, n, sz)
                   \/ KeyEq(key, get_elem_key(m, h, n))
        \* where the loop over the entries leaves: the first index with Stop, or -1
        j == IF \E n \in 0..(cnt - 1) : Stop(n)
             THEN CHOOSE n \in 0..(cnt - 1) : Stop(n) /\ \A k \in 0..(n - 1) : ~Stop(k)
             ELSE -1
    IN  IF cnt > 0 /\ size(key) # h.dimensions_ * 2
        THEN DiedPath("abort")      \* the assertion of operator== and operator>=
        ELSE IF IsLeafBlock(m, h)
        THEN IF j = -1 THEN NotFound
             ELSE IF oob = "fault" /\ SlotBeyondFile(h, j, sz) THEN DiedPath("crash")
             ELSE [st |-> "ok", path |-> << <<get_in_file_addr(m, h), j>> >>]
        ELSE FindLeaf_inner(m, sz, t, h, key, oob, fuel, 0)

\* a faulty inner loop that gives up after the first containing entry whose
\* subtree does not hold the key
FindLeaf_inner_first(m, sz, t, h, key, oob, fuel, i) ==
    LET cnt == get_count(m, h)
        Stop(n) == \/ oob = "fault" /\ SlotBeyondFile(h, n, sz)
                   \/ KeyGe(get_elem_key(m, h, n), key)
        j == IF \E n \in i..(cnt - 1) : Stop(n)
             THEN CHOOSE n \in i..(cnt - 1) : Stop(n) /\ \A k \in i..(n - 1) : ~Stop(k)
             ELSE -1
    IN  IF j = -1 THEN NotFound
        ELSE LET next_addr == get_elem_value(m, h, j)
             IN  IF oob = "fault" /\ SlotBeyondFile(h, j, sz) THEN DiedPath("crash")
                 ELSE IF ~get_address_ok(t, sz, next_addr) THEN DiedPath("abort")
                 ELSE IF fuel = 0 THEN DiedPath("crash")
                 ELSE LET r == FindLeaf(m, sz, t, get_node_handler(m, t, next_addr),
                                        key, oob, fuel - 1)
                      IN  IF r.st # "ok" THEN r
                          ELSE IF r.path # <<>>
                          THEN [st |-> "ok",
                                path |-> << <<get_in_file_addr(m, h), j>> >> \o r.path]
                          ELSE NotFound

FindLeaf_inner(m, sz, t, h, key, oob, fuel, i) ==
    LET cnt == get_count(m, h)
        Stop(n) == \/ oob = "fault" /\ SlotBeyondFile(h, n, sz)
                   \/ KeyGe(get_elem_key(m, h, n), key)
        \* where the loop over the entries leaves: the first index with Stop, or -1
        j == IF \E n \in i..(cnt - 1) : Stop(n)
             THEN CHOOSE n \in i..(cnt - 1) : Stop(n) /\ \A k \in i..(n - 1) : ~Stop(k)
             ELSE -1
    IN  IF j = -1 THEN NotFound
        ELSE LET next_addr == get_elem_value(m, h, j)
             IN  IF oob = "fault" /\ SlotBeyondFile(h, j, sz) THEN DiedPath("crash")
                 ELSE IF ~get_address_ok(t, sz, next_addr) THEN DiedPath("abort")
                 ELSE IF fuel = 0 THEN DiedPath("crash")
                 ELSE LET r == FindLeaf(m, sz, t, get_node_handler(m, t, next_addr),
                                        key, oob, fuel - 1)
                      IN  IF r.st # "ok" THEN r
                          ELSE IF r.path # <<>>
                          THEN [st |-> "ok",
                                path |-> << <<get_in_file_addr(m, h), j>> >> \o r.path]
                          ELSE FindLeaf_inner(m, sz, t, h, key, oob, fuel, j + 1)

\* get_node_mbr: the union of the node's keys; get_elem_key(0) asserts that
\* the node is not empty
get_node_mbr_pre(m, h) == get_elem_key_pre(m, h, 0)

RECURSIVE get_node_mbr_from(_, _, _, _)
get_node_mbr_from(m, h, i, mbr) ==
    IF i >= get_count(m, h) THEN mbr
    ELSE get_node_mbr_from(m, h, i + 1, mbr_enlarge(mbr, get_elem_key(m, h, i)))

get_node_mbr(m, h) == get_node_mbr_from(m, h, 1, get_elem_key(m, h, 0))

\* collect_leaf_entries: [st, res], depth first in slot order
RECURSIVE collect_leaf_entries(_, _, _, _, _)
RECURSIVE collect_children(_, _, _, _, _, _, _)
collect_leaf_entries(m, sz, t, h, fuel) ==
    IF IsLeafBlock(m, h)
    THEN [st |-> "ok", res |-> [n \in 1..get_count(m, h) |-> get_elem_pair(m, h, n - 1)]]
    ELSE collect_children(m, sz, t, h, fuel, 0, <<>>)

collect_children(m, sz, t, h, fuel, i, acc) ==
    IF i >= get_count(m, h) THEN [st |-> "ok", res |-> acc]
    ELSE LET child_addr == get_elem_value(m, h, i)
         IN  IF ~get_address_ok(t, sz, child_addr) THEN Died("abort")
             ELSE IF fuel = 0 THEN Died("crash")
             ELSE LET r == collect_leaf_entries(m, sz, t,
                               get_node_handler(m, t, child_addr), fuel - 1)
                  IN  IF r.st # "ok" THEN r
                      ELSE collect_children(m, sz, t, h, fuel, i + 1, acc \o r.res)

----------------------------------------------------------------------------
(* The engine's mutating steps return [st, m, sz]: how the call ended, the *)
(* file contents and the file size it left.                                *)

Fin(st, m, sz) == [st |-> st, m |-> m, sz |-> sz]

Back(path) == path[Len(path)]
PopBack(path) == SubSeq(path, 1, Len(path) - 1)

\* ChooseLeaf: the set of [st, path] it can produce.  min_enlarge points at
\* `enlarge', a variable of the loop body that has died when the next
\* iteration compares against it, so the comparison can go either way at
\* every entry after the first: the index kept is any entry of the node.
RECURSIVE ChooseLeaf(_, _, _, _, _, _)
ChooseLeaf(m, sz, t, h, key, fuel) ==
    IF IsLeafBlock(m, h)
    THEN { [st |-> "ok", path |-> << <<get_in_file_addr(m, h), 0>> >>] }
    ELSE LET entry_cnt == get_count(m, h)
             idxs == IF entry_cnt = 0 THEN {0} ELSE 0..(entry_cnt - 1)
             Down(i) ==
                LET next_addr == get_elem_value(m, h, i)
                IN  IF ~get_address_ok(t, sz, next_addr) THEN { DiedPath("abort") }
                    ELSE IF fuel = 0 THEN { DiedPath("crash") }
                    ELSE { IF r.st # "ok" THEN r
                           ELSE [st |-> "ok",
                                 path |-> << <<get_in_file_addr(m, h), i>> >> \o r.path]
                           : r \in ChooseLeaf(m, sz, t, get_node_handler(m, t, next_addr),
                                              key, fuel - 1) }
         IN  IF entry_cnt > 0 /\ size(key) # h.dimensions_ * 2
             THEN { DiedPath("abort") }     \* the assertion of enlargement
             ELSE UNION { Down(i) : i \in idxs }

\* modify_parent_entry_mbr(ctx, modify_key); hasKey is modify_key != nullptr.
\* Its steps, last first; each takes what the steps before it computed.
RECURSIVE modify_parent_entry_mbr(_, _, _, _, _, _)

\* a faulty propagation that never goes on to the next ancestor
modify_parent_stop(w, sz, t, path, old_mbr, new_modify_key) == Fin("ok", w.m, sz)

\* if (old_mbr != new_modify_key) modify_parent_entry_mbr(ctx, &new_modify_key)
modify_parent_carry(w, sz, t, path, old_mbr, new_modify_key) ==
    IF ~KeyEq(old_mbr, new_modify_key)
    THEN modify_parent_entry_mbr(w.m, sz, t, PopBack(path), new_modify_key, TRUE)
    ELSE Fin("ok", w.m, sz)

\* new_modify_key = get_node_mbr(&cur_handler), after set_elem_key ended as w
modify_parent_recompute(w, sz, t, path, old_mbr, cur_handler) ==
    IF w.st # "ok" THEN Fin(w.st, w.m, sz)
    ELSE modify_parent_carry(w, sz, t, path, old_mbr, get_node_mbr(w.m, cur_handler))

\* old_mbr = get_node_mbr(&cur_handler); set_elem_key when modify_key is given
modify_parent_set(m, sz, t, path, modify_key, hasKey, cur_handler) ==
    IF ~get_node_mbr_pre(m, cur_handler) THEN Fin("abort", m, sz)
    ELSE modify_parent_recompute(
             IF hasKey THEN set_elem_key(m, cur_handler, modify_key, Back(path)[2])
             ELSE [st |-> "ok", m |-> m],
             sz, t, path, get_node_mbr(m, cur_handler), cur_handler)

modify_parent_entry_mbr(m, sz, t, path, modify_key, hasKey) ==
    IF path = <<>> THEN Fin("ok", m, sz)
    ELSE IF ~get_address_ok(t, sz, Back(path)[1]) THEN Fin("abort", m, sz)
    ELSE modify_parent_set(m, sz, t, path, modify_key, hasKey,
                           get_node_handler(m, t, Back(path)[1]))

Abs(x) == IF x < 0 THEN -x ELSE x

RemoveAt(s, i) == SubSeq(s, 1, i - 1) \o SubSeq(s, i + 1, Len(s))

\* a faulty seed loop that also takes a pair whose waste equals the best so far
RECURSIVE PickSeedsLast(_, _, _, _, _, _)
PickSeedsLast(whole, i, j, p1, p2, min_waste) ==
    IF i > Len(whole) THEN <<p1, p2>>
    ELSE IF j > Len(whole) THEN PickSeedsLast(whole, i + 1, i + 2, p1, p2, min_waste)
    ELSE LET waste == enlargement(whole[i].key, whole[j].key)
                        - area(whole[i].key) - area(whole[j].key)
         IN  IF waste >= min_waste
             THEN PickSeedsLast(whole, i, j + 1, i, j, waste)
             ELSE PickSeedsLast(whole, i, j + 1, p1, p2, min_waste)

\* the seeds of pickseed: the pair (i, j), i < j, the double loop ends with
\* (indices from 1)
RECURSIVE PickSeedsFrom(_, _, _, _, _, _)
PickSeedsFrom(whole, i, j, p1, p2, min_waste) ==
    IF i > Len(whole) THEN <<p1, p2>>
    ELSE IF j > Len(whole) THEN PickSeedsFrom(whole, i + 1, i + 2, p1, p2, min_waste)
    ELSE LET mbr1 == whole[i].key
             mbr2 == whole[j].key
             waste == enlargement(mbr1, mbr2) - area(mbr1) - area(mbr2)
         IN  IF waste > min_waste
             THEN PickSeedsFrom(whole, i, j + 1, i, j, waste)
             ELSE PickSeedsFrom(whole, i, j + 1, p1, p2, min_waste)

\* one pass of the inner for loop of the distribution: [pick, exp1, exp2]
RECURSIVE PickNext(_, _, _, _, _)
PickNext(whole, mbr1, mbr2, i, best) ==
    IF i > Len(whole) THEN best
    ELSE LET mbr == whole[i].key
             expansion1 == enlargement(mbr1, mbr) - area(mbr1)
             expansion2 == enlargement(mbr2, mbr) - area(mbr2)
             expansion_diff == Abs(expansion1 - expansion2)
         IN  IF expansion_diff >= best.maxdiff
             THEN PickNext(whole, mbr1, mbr2, i + 1,
                           [pick |-> i, maxdiff |-> expansion_diff,
                            exp1 |-> expansion1, exp2 |-> expansion2])
             ELSE PickNext(whole, mbr1, mbr2, i + 1, best)

\* the while loop of pickseed
RECURSIVE Distribute(_, _, _, _, _)
Distribute(whole, res1, res2, mbr1, mbr2) ==
    IF whole = <<>> THEN <<res1, res2>>
    ELSE LET b == PickNext(whole, mbr1, mbr2, 1,
                           [pick |-> 0, maxdiff |-> 0, exp1 |-> 0, exp2 |-> 0])
             e == whole[b.pick]
         IN  IF b.exp1 < b.exp2
             THEN Distribute(RemoveAt(whole, b.pick), Append(res1, e), res2,
                             mbr_enlarge(mbr1, e.key), mbr2)
             ELSE Distribute(RemoveAt(whole, b.pick), res1, Append(res2, e),
                             mbr1, mbr_enlarge(mbr2, e.key))

\* pickseed(handler, kvp): <<res1, res2>>
pickseed(m, h, kvp) ==
    LET entry_count == get_count(m, h)
        whole == [n \in 1..entry_count |-> get_elem_pair(m, h, n - 1)] \o <<kvp>>
        min_waste == enlargement(whole[1].key, whole[2].key)
                       - area(whole[1].key) - area(whole[2].key)
        seeds == PickSeedsFrom(whole, 1, 2, 1, 2, min_waste)
        partition1 == seeds[1]
        partition2 == seeds[2]
        rest == RemoveAt(RemoveAt(whole, partition2), partition1)
    IN  Distribute(rest, <<whole[partition1]>>, <<whole[partition2]>>,
                   whole[partition1].key, whole[partition2].key)

\* handler.insert of every pair of a partition, in order: [st, m]
RECURSIVE InsertAll(_, _, _, _)
InsertAll(m, h, part, i) ==
    IF i > Len(part) THEN [st |-> "ok", m |-> m]
    ELSE LET w == insert(m, h, part[i])
         IN  IF w.st # "ok" THEN w ELSE InsertAll(w.m, h, part, i + 1)

\* a faulty covering MBR of a group: the key of its first entry alone
UnionOf_first(part, i, mbr) == mbr

RECURSIVE UnionOf(_, _, _)
UnionOf(part, i, mbr) ==
    IF i > Len(part) THEN mbr ELSE UnionOf(part, i + 1, mbr_enlarge(mbr, part[i].key))

\* split(ctx, insert_kvp, modify_key): install at the node on top of the path,
\* splitting it when it is full, and carry the change upward.  Its steps, last
\* first; each takes what the steps before it computed.
RECURSIVE split(_, _, _, _, _, _, _)

\* a faulty root split that never writes the new root offset into the file
split_root_unpublished(w, sz, new_root_addr) == Fin(w.st, w.m, sz)

\* get_header()->root_addr = new_root_addr, after the two inserts ended as w
split_root_publish(w, sz, new_root_addr) ==
    IF w.st # "ok" THEN Fin(w.st, w.m, sz)
    ELSE Fin("ok", Wr(w.m, RootAddrOff, new_root_addr), sz)

\* a faulty root split that publishes the new root without its two entries
split_root_unfilled(m4, sz, t, new_root_addr, kvp1, kvp2) ==
    split_root_publish([st |-> "ok", m |-> m4], sz, new_root_addr)

\* root_handler.insert(kvp1); root_handler.insert(kvp2)
split_root_fill(m4, sz, t, new_root_addr, kvp1, kvp2) ==
    split_root_publish(InsertAll(m4, get_node_handler(m4, t, new_root_addr),
                                 <<kvp1, kvp2>>, 1),
                       sz, new_root_addr)

\* a faulty root split that types the new root as a leaf
split_new_root_as_leaf(a2, t, kvp1, kvp2) ==
    IF ~get_address_ok(t, a2.sz, a2.block) THEN Fin("abort", a2.m, a2.sz)
    ELSE split_root_fill(WriteNodeHeader(a2.m, a2.block, LeafBlock, 0, a2.block),
                         a2.sz, t, a2.block, kvp1, kvp2)

\* the split node was the root: a2 is the block allocated for the new root
split_new_root(a2, t, kvp1, kvp2) ==
    IF ~get_address_ok(t, a2.sz, a2.block) THEN Fin("abort", a2.m, a2.sz)
    ELSE split_root_fill(WriteNodeHeader(a2.m, a2.block, InnerBlock, 0, a2.block),
                         a2.sz, t, a2.block, kvp1, kvp2)

\* a faulty link step that hands each sibling the other one's covering MBR
split_link_swapped(w3, sz, t, path, cur_handler, new_addr, mbr1, mbr2) ==
    IF w3.st # "ok" THEN Fin(w3.st, w3.m, sz)
    ELSE IF get_in_file_addr(w3.m, cur_handler) = get_root_addr(w3.m)
    THEN split_new_root(allocate_block(t, w3.m, sz), t,
                        [key |-> mbr1, value |-> get_in_file_addr(w3.m, cur_handler)],
                        [key |-> mbr2, value |-> new_addr])
    ELSE split(w3.m, sz, t, PopBack(path), [key |-> mbr2, value |-> new_addr], mbr1, TRUE)

\* after both halves are written (w3): a new root, or the parent takes the
\* new node's entry and the old node's new key
split_link(w3, sz, t, path, cur_handler, new_addr, mbr1, mbr2) ==
    IF w3.st # "ok" THEN Fin(w3.st, w3.m, sz)
    ELSE IF get_in_file_addr(w3.m, cur_handler) = get_root_addr(w3.m)
    THEN split_new_root(allocate_block(t, w3.m, sz), t,
                        [key |-> mbr2, value |-> get_in_file_addr(w3.m, cur_handler)],
                        [key |-> mbr1, value |-> new_addr])
    ELSE split(w3.m, sz, t, PopBack(path), [key |-> mbr1, value |-> new_addr], mbr2, TRUE)

\* new_node_handler.insert of partition1, after cur_handler took partition2 (w2)
split_fill_new(w2, sz, t, path, cur_handler, new_addr, partition1, partition2) ==
    IF w2.st # "ok" THEN Fin(w2.st, w2.m, sz)
    ELSE split_link(InsertAll(w2.m, get_node_handler(w2.m, t, new_addr), partition1, 1),
                    sz, t, path, cur_handler, new_addr,
                    UnionOf(partition1, 1, partition1[1].key),
                    UnionOf(partition2, 1, partition2[1].key))

\* a faulty split that refills the old node without clearing it first
split_reinsert_unclear(m1, sz, t, path, cur_handler, new_addr, seeds) ==
    split_fill_new(InsertAll(m1, cur_handler, seeds[2], 1),
                   sz, t, path, cur_handler, new_addr, seeds[1], seeds[2])

\* cur_handler.clear() and the insert of partition2
split_reinsert(m1, sz, t, path, cur_handler, new_addr, seeds) ==
    split_fill_new(InsertAll(clear(m1, cur_handler), cur_handler, seeds[2], 1),
                   sz, t, path, cur_handler, new_addr, seeds[1], seeds[2])

\* seeds = pickseed(&cur_handler, insert_kvp); its first comparison against
\* insert_kvp.key asserts the two sizes equal
split_partition(m1, sz, t, path, insert_kvp, cur_handler, new_addr) ==
    IF size(insert_kvp.key) # t.dimensions_ * 2 THEN Fin("abort", m1, sz)
    ELSE split_reinsert(m1, sz, t, path, cur_handler, new_addr,
                        pickseed(m1, cur_handler, insert_kvp))

\* a faulty split that types every new sibling as a leaf
split_full_as_leaf(a1, t, path, insert_kvp, cur_handler, block_type) ==
    IF ~get_address_ok(t, a1.sz, a1.block) THEN Fin("abort", a1.m, a1.sz)
    ELSE split_partition(WriteNodeHeader(a1.m, a1.block, LeafBlock, 0, a1.block),
                         a1.sz, t, path, insert_kvp, cur_handler, a1.block)

\* full, split: a1 is the block allocated for the new node
split_full(a1, t, path, insert_kvp, cur_handler, block_type) ==
    IF ~get_address_ok(t, a1.sz, a1.block) THEN Fin("abort", a1.m, a1.sz)
    ELSE split_partition(WriteNodeHeader(a1.m, a1.block, block_type, 0, a1.block),
                         a1.sz, t, path, insert_kvp, cur_handler, a1.block)

\* not full: after cur_handler.insert ended as w1, propagate till root
split_propagate(w1, sz, t, path, cur_handler) ==
    IF w1.st # "ok" THEN Fin(w1.st, w1.m, sz)
    ELSE modify_parent_entry_mbr(w1.m, sz, t, PopBack(path),
                                 get_node_mbr(w1.m, cur_handler), TRUE)

\* after set_elem_key ended as w0: install, or split when the node is full
split_install(w0, sz, t, path, insert_kvp, cur_handler) ==
    IF w0.st # "ok" THEN Fin(w0.st, w0.m, sz)
    ELSE IF ~is_full(w0.m, cur_handler)
    THEN split_propagate(insert(w0.m, cur_handler, insert_kvp), sz, t, path, cur_handler)
    ELSE split_full(allocate_block(t, w0.m, sz), t, path, insert_kvp, cur_handler,
                    IF IsLeafBlock(w0.m, cur_handler) THEN LeafBlock ELSE InnerBlock)

\* if (modify_key != nullptr) cur_handler.set_elem_key(modify_key, parent_entry_id)
split_modify(m, sz, t, path, insert_kvp, modify_key, hasKey, cur_handler) ==
    split_install(IF hasKey THEN set_elem_key(m, cur_handler, modify_key, Back(path)[2])
                  ELSE [st |-> "ok", m |-> m],
                  sz, t, path, insert_kvp, cur_handler)

split(m, sz, t, path, insert_kvp, modify_key, hasKey) ==
    IF path = <<>> THEN Fin("crash", m, sz)     \* back() of an empty deque
    ELSE IF ~get_address_ok(t, sz, Back(path)[1]) THEN Fin("abort", m, sz)
    ELSE split_modify(m, sz, t, path, insert_kvp, modify_key, hasKey,
                      get_node_handler(m, t, Back(path)[1]))

----------------------------------------------------------------------------
(* The public operations as functions of the file: what a call returns and *)
(* the file it leaves.  st is "ok" when the call returns, "abort" when an  *)
(* assertion or abort() ends the process, "crash" when the process dies of *)
(* a fault (a read outside the file, a recursion that never returns).      *)

\* Overlap_Search / Comprise_Search: [st, res]
SearchOutcome(m, sz, t, key, mode, oob) ==
    IF (size(key) \div 2) # t.dimensions_ THEN Died("abort")
    ELSE IF ~get_address_ok(t, sz, 0) THEN Died("abort")
    ELSE IF ~get_address_ok(t, sz, get_root_addr(m)) THEN Died("abort")
    ELSE search(m, sz, t, get_node_handler(m, t, get_root_addr(m)), key, mode, oob,
                MaxDepth)

\* GetAllEntries: [st, res]
GetAllEntriesOutcome(m, sz, t) ==
    IF ~get_address_ok(t, sz, 0) THEN Died("abort")
    ELSE LET root_addr == get_root_addr(m)
         IN  IF root_addr = INVALID_ROOT_ADDR THEN [st |-> "ok", res |-> <<>>]
             ELSE IF ~get_address_ok(t, sz, root_addr) THEN Died("abort")
             ELSE collect_leaf_entries(m, sz, t, get_node_handler(m, t, root_addr),
                                       MaxDepth)

\* Insert: the set of [st, m, sz] the call can end with
InsertOutcomes(m, sz, t, kvp) ==
    IF ~get_address_ok(t, sz, 0) THEN { Fin("abort", m, sz) }
    ELSE LET root_addr == get_root_addr(m)
         IN  IF root_addr = INVALID_ROOT_ADDR
             THEN \* empty tree
                  LET a == allocate_block(t, m, sz)
                      new_addr == a.block
                      m1 == Wr(a.m, RootAddrOff, new_addr)
                      m2 == WriteNodeHeader(m1, new_addr, LeafBlock, 0, new_addr)
                      w == insert(m2, get_node_handler(m2, t, new_addr), kvp)
                  IN  IF ~get_address_ok(t, a.sz, new_addr)
                      THEN { Fin("abort", m1, a.sz) }
                      ELSE { Fin(w.st, w.m, a.sz) }
             ELSE IF ~get_address_ok(t, sz, root_addr) THEN { Fin("abort", m, sz) }
             ELSE { IF c.st # "ok" THEN Fin(c.st, m, sz)
                    ELSE split(m, sz, t, c.path, kvp, <<>>, FALSE)
                    : c \in ChooseLeaf(m, sz, t, get_node_handler(m, t, root_addr),
                                       kvp.key, MaxDepth) }

\* Delete: [st, m, ret, removed]; removed holds the pair of the slot that
\* delete_elem_key took out of its leaf (empty when none was)
NoDelete(st, m) == [st |-> st, m |-> m, ret |-> FALSE, removed |-> <<>>]

\* return true, after modify_parent_entry_mbr(&ctx) ended as r
Delete_return(r, removed) ==
    [st |-> r.st, m |-> r.m, ret |-> r.st = "ok", removed |-> <<removed>>]

\* target_handler.delete_elem_key(parent_entry_id); modify_parent_entry_mbr(&ctx)
Delete_remove(m, sz, t, path, target_handler, parent_entry_id) ==
    Delete_return(modify_parent_entry_mbr(
                      delete_elem_key(m, target_handler, parent_entry_id),
                      sz, t, path, <<>>, FALSE),
                  get_elem_pair(m, target_handler, parent_entry_id))

\* after FindLeaf ended as f
Delete_found(m, sz, t, f) ==
    IF f.st # "ok" THEN NoDelete(f.st, m)
    ELSE IF f.path = <<>> THEN NoDelete("ok", m)
    ELSE Delete_remove(m, sz, t, f.path, get_node_handler(m, t, Back(f.path)[1]),
                       Back(f.path)[2])

DeleteOutcome(m, sz, t, key, oob) ==
    IF ~get_address_ok(t, sz, 0) THEN NoDelete("abort", m)
    ELSE IF ~get_address_ok(t, sz, get_root_addr(m)) THEN NoDelete("abort", m)
    ELSE Delete_found(m, sz, t,
                      FindLeaf(m, sz, t, get_node_handler(m, t, get_root_addr(m)),
                               key, oob, MaxDepth))

----------------------------------------------------------------------------
(* The test harness's oracle (BruteForceSearch) and its comparison.        *)

\* BruteForceSearch::insert: an existing key's value is replaced
bf_insert(data, key, value) ==
    IF \E i \in DOMAIN data : KeyEq(data[i].key, key)
    THEN LET i == SetMin({ j \in DOMAIN data : KeyEq(data[j].key, key) })
         IN  [data EXCEPT ![i] = [key |-> key, value |-> value]]
    ELSE Append(data, [key |-> key, value |-> value])

\* BruteForceSearch::remove: [data, ret]
bf_remove(data, key) ==
    IF \E i \in DOMAIN data : KeyEq(data[i].key, key)
    THEN [data |-> RemoveAt(data, SetMin({ j \in DOMAIN data : KeyEq(data[j].key, key) })),
          ret |-> TRUE]
    ELSE [data |-> data, ret |-> FALSE]

bf_overlap_search(data, query) ==
    LET Hit(item) == IsOverlap(item.key, query) IN SelectSeq(data, Hit)

bf_comprise_search(data, query) ==
    LET Hit(item) == KeyGe(query, item.key) IN SelectSeq(data, Hit)

\* the multiset of the elements of a sequence
BagOfSeq(sq) ==
    [e \in { sq[i] : i \in DOMAIN sq } |-> Cardinality({ i \in DOMAIN sq : sq[i] = e })]

\* compare_results: equal sizes and, both sorted by key, equal position by
\* position.  The oracle's keys are pairwise different, so this is equality
\* of the two multisets.
compare_results(brute_force_result, rtree_result) ==
    /\ Len(brute_force_result) = Len(rtree_result)
    /\ BagOfSeq(brute_force_result) = BagOfSeq(rtree_result)

----------------------------------------------------------------------------
(* The processes that use the index file.                                  *)

NoObject == RTreeObject(-1, 0, 0, 0, 0)
\* the descriptor openat returns
Fd == 3

Schema(ks, vs, bs, dims) ==
    [key_size |-> ks, value_size |-> vs, block_size |-> bs, dimensions |-> dims]
\* the configuration every process of Spec uses
TheSchema == Schema(key_size, value_size, block_size, Dimensions)
\* a caller of open that disagrees with the file on the number of dimensions
OtherSchema == Schema(key_size, value_size, block_size, Dimensions - 1)

\* the assertion of the constructor
RTree_pre(bs) == bs > 0 /\ bs % PAGE_UNIT = 0

\* a faulty header initialisation that leaves the Dimensions field out
WriteIndexHeader_nodims(m, s) ==
    Wr(Wr(Wr(Wr(m, 8, s.key_size), 16, s.value_size), 24, s.block_size),
       RootAddrOff, INVALID_ROOT_ADDR)

\* *get_header() = IndexHeader{...}
WriteIndexHeader(m, s) ==
    Wr(Wr(Wr(Wr(Wr(m, 0, s.dimensions), 8, s.key_size), 16, s.value_size),
          24, s.block_size), RootAddrOff, INVALID_ROOT_ADDR)

Init ==
    /\ fexists = FALSE
    /\ mem = <<>>
    /\ fsize = 0
    /\ running = FALSE
    /\ rt = NoObject
    /\ stored = EmptyBag
    /\ oracle = <<>>
    /\ ninserts = 0
    /\ ndeletes = 0

\* RTree::create, and the harness that starts with it (run_test)
Create(s) ==
    /\ ~running
    /\ LET index == IF fexists THEN -1 ELSE Fd
           ok == RTree_pre(s.block_size)
           ret == RTreeObject(index, s.key_size, s.value_size, s.block_size, s.dimensions)
           grown == <<>> \o Zeros(s.block_size \div WordBytes)
       IN  /\ fexists' = TRUE
           /\ fsize' = IF index = -1 THEN fsize ELSE s.block_size
           /\ mem' = IF index = -1 THEN mem
                      ELSE IF ok THEN WriteIndexHeader(grown, s)
                      ELSE grown
           /\ running' = ok
           /\ rt' = IF ok THEN ret ELSE NoObject
    /\ UNCHANGED <<stored, oracle, ninserts, ndeletes>>

\* RTree::open
Open(s) ==
    /\ ~running
    /\ LET index == IF fexists THEN Fd ELSE -1
           ret == RTreeObject(index, s.key_size, s.value_size, s.block_size, s.dimensions)
           ok == RTree_pre(s.block_size) /\ (index # -1 => get_address_ok(ret, fsize, 0))
           mismatch == \/ Rd(mem, 8) # s.key_size
                       \/ Rd(mem, 16) # s.value_size
                       \/ Rd(mem, 24) # s.block_size
                       \/ Rd(mem, 0) # s.dimensions
           handle == IF index = -1
                     THEN RTreeObject(index, s.key_size, s.value_size, s.block_size,
                                      s.dimensions)
                     ELSE IF mismatch
                     THEN RTreeObject(index, s.key_size, s.value_size, s.block_size,
                                      s.dimensions)
                     ELSE ret
       IN  /\ running' = ok
           /\ rt' = IF ok THEN handle ELSE NoObject
    /\ UNCHANGED <<fexists, mem, fsize, stored, oracle, ninserts, ndeletes>>

\* the process ends (the RTree object is destroyed); the file stays
Close ==
    /\ running
    /\ running' = FALSE
    /\ rt' = NoObject
    /\ UNCHANGED <<fexists, mem, fsize, stored, oracle, ninserts, ndeletes>>

\* what a call that ended with st leaves of the process: it goes on with its
\* object, or it has died
After(st, obj) == IF st = "ok" THEN obj ELSE NoObject

\* RTree::Insert, followed by the harness's brute_force.insert
Insert(kvp) ==
    /\ running
    /\ ninserts < MaxInserts
    /\ \E r \in InsertOutcomes(mem, fsize, rt, kvp) :
          /\ r.sz <= MaxBlocks * block_size
          /\ mem' = r.m
          /\ fsize' = r.sz
          /\ running' = (r.st = "ok")
          /\ rt' = After(r.st, rt)
          /\ stored' = IF r.st = "ok" THEN stored (+) SetToBag({kvp}) ELSE stored
          /\ oracle' = IF r.st = "ok" THEN bf_insert(oracle, kvp.key, kvp.value)
                       ELSE oracle
    /\ ninserts' = ninserts + 1
    /\ UNCHANGED <<fexists, ndeletes>>

\* what a Delete call that ended as d leaves
Deleted(d, key) ==
    /\ d.removed # <<>> => ndeletes < MaxDeletes
    /\ mem' = d.m
    /\ running' = (d.st = "ok")
    /\ rt' = After(d.st, rt)
    /\ stored' = IF d.removed # <<>> THEN stored (-) SetToBag({d.removed[1]})
                 ELSE stored
    /\ oracle' = IF d.removed # <<>> THEN bf_remove(oracle, key).data ELSE oracle
    /\ ndeletes' = IF d.removed # <<>> THEN ndeletes + 1 ELSE ndeletes

\* RTree::Delete, followed by the harness's brute_force.remove
Delete(key, oob) ==
    /\ running
    /\ Deleted(DeleteOutcome(mem, fsize, rt, key, oob), key)
    /\ UNCHANGED <<fexists, fsize, ninserts>>

\* what a call that ended with st and wrote nothing leaves of the process
Returned(st) ==
    /\ running' = (st = "ok")
    /\ rt' = After(st, rt)

\* RTree::Overlap_Search and RTree::Comprise_Search: the file is not written;
\* the process goes on when the call returns
Search(key, mode, oob) ==
    /\ running
    /\ Returned(SearchOutcome(mem, fsize, rt, key, mode, oob).st)
    /\ UNCHANGED <<fexists, mem, fsize, stored, oracle, ninserts, ndeletes>>

Overlap_Search(key, oob) == Search(key, "overlap", oob)

Comprise_Search(key, oob) == Search(key, "comprise", oob)

\* RTree::GetAllEntries
GetAllEntries ==
    /\ running
    /\ Returned(GetAllEntriesOutcome(mem, fsize, rt).st)
    /\ UNCHANGED <<fexists, mem, fsize, stored, oracle, ninserts, ndeletes>>

\* what a read of bytes outside the file does
OobOutcomes == {"fault", "zero"}

Next ==
    \/ Create(TheSchema)
    \/ Open(TheSchema)
    \/ Close
    \/ \E k \in Keys : Insert([key |-> k, value |-> ninserts + 1])
    \/ \E k \in Keys \cup {Origin}, oob \in OobOutcomes : Delete(k, oob)
    \/ \E q \in Keys, oob \in OobOutcomes : Overlap_Search(q, oob)
    \/ \E q \in Keys, oob \in OobOutcomes : Comprise_Search(q, oob)
    \/ GetAllEntries

Spec == Init /\ [][Next]_vars

\* the same processes, and one that opens the file with another schema
NextOpen ==
    \/ Next
    \/ Open(OtherSchema)

SpecOpen == Init /\ [][NextOpen]_vars

\* a client whose values are twice as wide as a child offset: a leaf slot is
\* 1376 bytes and an inner slot 1368, and both kinds of node hold two entries
WideSchema == Schema(key_size, 2 * value_size, block_size, Dimensions)

NextWide ==
    \/ Create(WideSchema)
    \/ Open(WideSchema)
    \/ Close
    \/ \E k \in Keys : Insert([key |-> k, value |-> ninserts + 1])
    \/ \E k \in Keys \cup {Origin}, oob \in OobOutcomes : Delete(k, oob)
    \/ \E q \in Keys, oob \in OobOutcomes : Overlap_Search(q, oob)
    \/ \E q \in Keys, oob \in OobOutcomes : Comprise_Search(q, oob)
    \/ GetAllEntries

SpecWide == Init /\ [][NextWide]_vars

----------------------------------------------------------------------------
(* The index as its clients see it in a state.                             *)

\* the object a process that opened the file with its own schema holds
TheHandle == RTreeObject(Fd, key_size, value_size, block_size, Dimensions)

\* the object a process of SpecWide holds
WideHandle == RTreeObject(Fd, key_size, 2 * value_size, block_size, Dimensions)

\* a process holds a valid handle that agrees with the file's schema
Serving == running /\ rt = TheHandle

\* root_addr == INVALID_ROOT_ADDR: no entry was ever inserted
Fresh == get_root_addr(mem) = INVALID_ROOT_ADDR

\* the node blocks reachable from the block at addr through child offsets
RECURSIVE Nodes(_, _, _, _, _)
Nodes(m, sz, t, addr, fuel) ==
    IF ~get_address_ok(t, sz, addr) THEN {}
    ELSE LET h == get_node_handler(m, t, addr)
         IN  IF IsLeafBlock(m, h) \/ fuel = 0 THEN {addr}
             ELSE {addr} \cup UNION { Nodes(m, sz, t, get_elem_value(m, h, i), fuel - 1) :
                                      i \in 0..(get_count(m, h) - 1) }

\* the nodes of the tree
TreeNodes ==
    IF Fresh THEN {} ELSE Nodes(mem, fsize, TheHandle, get_root_addr(mem), MaxDepth)

NodeAt(addr) == get_node_handler(mem, TheHandle, addr)
IsLeafNode(addr) == IsLeafBlock(mem, NodeAt(addr))
CountOf(addr) == get_count(mem, NodeAt(addr))

\* the keys stored in the leaves of the subtree of the block at addr
RECURSIVE LeafKeys(_, _, _, _, _)
LeafKeys(m, sz, t, addr, fuel) ==
    IF ~get_address_ok(t, sz, addr) THEN {}
    ELSE LET h == get_node_handler(m, t, addr)
         IN  IF IsLeafBlock(m, h)
             THEN { get_elem_key(m, h, i) : i \in 0..(get_count(m, h) - 1) }
             ELSE IF fuel = 0 THEN {}
             ELSE UNION { LeafKeys(m, sz, t, get_elem_value(m, h, i), fuel - 1) :
                          i \in 0..(get_count(m, h) - 1) }

\* the axis-wise union of a non-empty set of rectangles
UnionMBR(S) ==
    LET any == CHOOSE k \in S : TRUE
        h == Len(any) \div 2
        lo(i) == CHOOSE x \in { k[i] : k \in S } : \A k \in S : x <= k[i]
        hi(i) == CHOOSE x \in { k[i] : k \in S } : \A k \in S : x >= k[i]
    IN  [i \in 1..Len(any) |-> IF i <= h THEN lo(i) ELSE hi(i)]

\* the tree has an inner root / an inner node below the root
RootIsInner == ~Fresh /\ ~IsLeafNode(get_root_addr(mem))
HasInnerBelowRoot ==
    \E a \in TreeNodes : a # get_root_addr(mem) /\ ~IsLeafNode(a)

\* the stored entries whose key overlaps q / lies inside q, as a bag: what a
\* linear scan over the stored entries returns
ScanOverlap(q) ==
    [e \in { x \in BagToSet(stored) : IsOverlap(x.key, q) } |-> stored[e]]
ScanComprise(q) ==
    [e \in { x \in BagToSet(stored) : KeyGe(q, x.key) } |-> stored[e]]

StoredKey(k) == \E e \in BagToSet(stored) : e.key = k

----------------------------------------------------------------------------
(* The claims.                                                             *)

\* C1: whatever Insert, Delete and search calls came before, Overlap_Search(q)
\* returns exactly the bag of the stored entries whose key overlaps q and
\* Comprise_Search(q) exactly the bag of those whose key lies inside q.
C1_SearchEqualsScan ==
    Serving =>
        \A q \in Keys, oob \in OobOutcomes :
            /\ LET r == SearchOutcome(mem, fsize, rt, q, "overlap", oob)
               IN  r.st = "ok" /\ BagOfSeq(r.res) = ScanOverlap(q)
            /\ LET r == SearchOutcome(mem, fsize, rt, q, "comprise", oob)
               IN  r.st = "ok" /\ BagOfSeq(r.res) = ScanComprise(q)

\* C2: every (k, v) inserted and not deleted is in the result of
\* Overlap_Search(k) and in the result of Comprise_Search(k), whatever
\* inserts, splits and deletes happened since.
C2_StoredEntryIsFound ==
    Serving =>
        \A e \in BagToSet(stored), oob \in OobOutcomes :
            /\ LET r == SearchOutcome(mem, fsize, rt, e.key, "overlap", oob)
               IN  r.st = "ok" /\ \E n \in DOMAIN r.res : r.res[n] = e
            /\ LET r == SearchOutcome(mem, fsize, rt, e.key, "comprise", oob)
               IN  r.st = "ok" /\ \E n \in DOMAIN r.res : r.res[n] = e

\* a tree that has split, with three entries left after a Delete
C2_Witness ==
    /\ Serving
    /\ RootIsInner
    /\ ndeletes = 1
    /\ BagCardinality(stored) = 3

\* C3: once a key was inserted, Delete(k) returns true exactly when an entry
\* with key k is stored, and a Delete that returns false leaves the file as
\* it was.
C3_DeleteTrueIffStored ==
    (Serving /\ ~Fresh) =>
        \A k \in Keys, oob \in OobOutcomes :
            LET d == DeleteOutcome(mem, fsize, rt, k, oob)
            IN  /\ d.st = "ok"
                /\ d.ret <=> StoredKey(k)
                /\ ~d.ret => d.m = mem

\* C4: after every operation, the key of every entry of every inner node is
\* exactly the union of the keys stored in the leaves below its child.
C4_InnerEntriesTight ==
    Serving =>
        \A a \in TreeNodes :
            ~IsLeafNode(a) =>
                \A i \in 0..(CountOf(a) - 1) :
                    LET below == LeafKeys(mem, fsize, TheHandle,
                                          get_elem_value(mem, NodeAt(a), i), MaxDepth)
                    IN  /\ below # {}
                        /\ get_elem_key(mem, NodeAt(a), i) = UnionMBR(below)

C6_GetAllEntriesIsStored ==
    Serving =>
        LET r == GetAllEntriesOutcome(mem, fsize, rt)
        IN  r.st = "ok" /\ BagOfSeq(r.res) = stored

\* a tree whose root was split twice (an inner node below the root), after a
\* Delete
C6_Witness ==
    /\ Serving
    /\ HasInnerBelowRoot
    /\ ndeletes = 1
    /\ BagCardinality(stored) = 3

\* C7: Delete(k) of a key that is not stored returns false and leaves every
\* byte of the file and the file size as they were.
C7_DeleteAbsentChangesNothing ==
    Serving =>
        \A k \in Keys \cup {Origin}, oob \in OobOutcomes :
            ~StoredKey(k) =>
                LET d == DeleteOutcome(mem, fsize, rt, k, oob)
                IN  d.st = "ok" /\ ~d.ret /\ d.m = mem

\* C8: on an index whose root offset is still 0, both searches return the
\* empty list and Delete returns false; none aborts or writes.
C8_FreshIndexIsEmpty ==
    (Serving /\ Fresh) =>
        /\ \A q \in Keys, oob \in OobOutcomes, mode \in {"overlap", "comprise"} :
              SearchOutcome(mem, fsize, rt, q, mode, oob) = [st |-> "ok", res |-> <<>>]
        /\ \A k \in Keys \cup {Origin}, oob \in OobOutcomes :
              DeleteOutcome(mem, fsize, rt, k, oob) = NoDelete("ok", mem)

\* C9: the index holds one entry per key, the one the oracle holds: for every
\* key of the oracle, Overlap_Search(k) returns exactly one entry with that
\* key, carrying the value inserted last.
C9_OneEntryPerKey ==
    Serving =>
        \A n \in DOMAIN oracle, oob \in OobOutcomes :
            LET r == SearchOutcome(mem, fsize, rt, oracle[n].key, "overlap", oob)
                SameKey(e) == e.key = oracle[n].key
            IN  r.st = "ok" /\ SelectSeq(r.res, SameKey) = << oracle[n] >>

\* a process holds the object of an open call whose dimensions are not the
\* file's
OpenedWithOtherSchema ==
    running /\ fexists /\ rt.dimensions_ # Rd(mem, 0)

\* C10: the handle open returns on a schema mismatch is invalid: every
\* operation on it fails and none reads or changes the tree.
C10_MismatchedHandleIsInvalid ==
    OpenedWithOtherSchema =>
        /\ rt.fd = -1
        /\ GetAllEntriesOutcome(mem, fsize, rt).st # "ok"
        /\ \A k \in Keys, v \in Values :
              \A r \in InsertOutcomes(mem, fsize, rt, [key |-> k, value |-> v]) :
                  r.st # "ok" /\ r.m = mem /\ r.sz = fsize
        /\ \A k \in Keys, oob \in OobOutcomes :
              LET d == DeleteOutcome(mem, fsize, rt, k, oob)
              IN  d.st # "ok" /\ d.m = mem
        /\ \A q \in Keys, oob \in OobOutcomes, mode \in {"overlap", "comprise"} :
              SearchOutcome(mem, fsize, rt, q, mode, oob).st # "ok"

\* C11: the tree lives in the file.  A Close leaves the file as it was, with
\* GetAllEntries returning the stored entries just before it; an Open of the
\* existing file with the same schema leaves the file and its root offset as
\* they were and yields a handle whose GetAllEntries returns that same bag.
C11_ReopenKeepsEntries ==
    [][ /\ (Close /\ rt = TheHandle) =>
              /\ mem' = mem /\ fsize' = fsize /\ stored' = stored
              /\ LET r == GetAllEntriesOutcome(mem, fsize, rt)
                 IN  r.st = "ok" /\ BagOfSeq(r.res) = stored
        /\ (Open(TheSchema) /\ fexists) =>
              /\ running' /\ rt' = TheHandle
              /\ mem' = mem /\ fsize' = fsize /\ stored' = stored
              /\ get_root_addr(mem') = get_root_addr(mem)
              /\ LET r == GetAllEntriesOutcome(mem', fsize', rt')
                 IN  r.st = "ok" /\ BagOfSeq(r.res) = stored
      ]_vars

\* no process holds the file, which holds a tree that has split and lost an
\* entry to a Delete
C11_Witness ==
    /\ ~running
    /\ fexists
    /\ RootIsInner
    /\ ndeletes = 1
    /\ BagCardinality(stored) = 3

\* C12: Create on a name that does not exist leaves a file of exactly one
\* block whose header holds the schema and root offset 0, and returns a valid
\* handle; Create on a name that exists returns a handle with descriptor -1
\* and leaves the file as it was.
C12_CreateInitialisesOrFails ==
    [][ Create(TheSchema) =>
          IF ~fexists
          THEN /\ fexists'
               /\ fsize' = block_size
               /\ Len(mem') * WordBytes = block_size
               /\ Rd(mem', 0) = Dimensions
               /\ Rd(mem', 8) = key_size
               /\ Rd(mem', 16) = value_size
               /\ Rd(mem', 24) = block_size
               /\ get_root_addr(mem') = INVALID_ROOT_ADDR
               /\ \A o \in 5..(Len(mem') - 1) : mem'[o + 1] = 0
               /\ rt' = TheHandle
          ELSE /\ rt'.fd = -1
               /\ fexists' /\ mem' = mem /\ fsize' = fsize
      ]_vars

\* a process holds the handle of a Create that failed on a file with a tree
C12_Witness ==
    /\ running
    /\ fexists
    /\ rt.fd = -1
    /\ ~Fresh

\* a key of two axes, which a caller hands to an index of Dimensions axes
ShortKey == <<0, 0, 1, 1>>

\* C13: Insert, Delete and the two searches called with a key whose number of
\* coordinates is not 2 * Dimensions abort on an assertion, with the file
\* contents and the file size as they were before the call, in every state of
\* the tree.
C13_WrongSizeKeyAbortsCleanly ==
    Serving =>
        /\ \A r \in InsertOutcomes(mem, fsize, rt, [key |-> ShortKey, value |-> 1]) :
              r.st = "abort" /\ r.m = mem /\ r.sz = fsize
        /\ \A oob \in OobOutcomes :
              LET d == DeleteOutcome(mem, fsize, rt, ShortKey, oob)
              IN  d.st = "abort" /\ d.m = mem
        /\ \A oob \in OobOutcomes, mode \in {"overlap", "comprise"} :
              SearchOutcome(mem, fsize, rt, ShortKey, mode, oob).st = "abort"

\* the child offset stored in entry i of the inner node at a
ChildOf(a, i) == get_elem_value(mem, NodeAt(a), i)

\* the number of levels between the node at a and the deepest leaf below it
RECURSIVE LevelOf(_, _)
LevelOf(a, fuel) ==
    IF ~get_address_ok(TheHandle, fsize, a) THEN 0
    ELSE IF IsLeafNode(a) \/ fuel = 0 \/ CountOf(a) <= 0 THEN 0
    ELSE LET below == { LevelOf(ChildOf(a, i), fuel - 1) : i \in 0..(CountOf(a) - 1) }
         IN  1 + (CHOOSE x \in below : \A y \in below : x >= y)

\* the depths at which the leaves below the node at a lie, a being at depth d
RECURSIVE LeafDepths(_, _, _)
LeafDepths(a, d, fuel) ==
    IF ~get_address_ok(TheHandle, fsize, a) THEN {}
    ELSE IF IsLeafNode(a) \/ fuel = 0 THEN {d}
    ELSE UNION { LeafDepths(ChildOf(a, i), d + 1, fuel - 1) : i \in 0..(CountOf(a) - 1) }

\* the inner entries <<node, slot>> of the tree that hold the offset c
RefsTo(c) ==
    { e \in { <<a, i>> : a \in TreeNodes, i \in 0..(get_entry_capacity(NodeAt(c)) - 1) } :
        /\ ~IsLeafNode(e[1])
        /\ e[2] < CountOf(e[1])
        /\ ChildOf(e[1], e[2]) = c }

\* C14: the tree is balanced and well-typed: every node is a leaf or an inner
\* block, every child offset of an inner entry names an allocated node block
\* (not the header block), a child is a leaf exactly when its parent is one
\* level above the leaves, all leaves lie at the same depth, every node but
\* the root is referenced by exactly one inner entry and the root by none.
C14_BalancedAndTyped ==
    Serving =>
        /\ \A a \in TreeNodes :
              /\ block_type_(mem, a) \in {LeafBlock, InnerBlock}
              /\ ~IsLeafNode(a) =>
                    \A i \in 0..(CountOf(a) - 1) :
                        /\ get_address_ok(TheHandle, fsize, ChildOf(a, i))
                        /\ ChildOf(a, i) >= block_size
                        /\ IsLeafNode(ChildOf(a, i)) <=> (LevelOf(a, MaxDepth) = 1)
              /\ Cardinality(RefsTo(a)) = IF a = get_root_addr(mem) THEN 0 ELSE 1
        /\ ~Fresh => Cardinality(LeafDepths(get_root_addr(mem), 0, MaxDepth)) = 1

\* a tree of three levels: the root, inner nodes below it, and the leaves
C14_Witness ==
    /\ Serving
    /\ HasInnerBelowRoot
    /\ LevelOf(get_root_addr(mem), MaxDepth) = 2

\* C15: the root offset changes only in an Insert: from 0 to the leaf block
\* the first insertion allocates, and, when the root is full, to the inner
\* block a root split allocates last, whose two entries are the old root and
\* its new sibling.  Every other step, and every Insert into a tree whose
\* root has room, leaves it as it was; and while it is not 0 every stored
\* entry is reachable from the node it names.
C15_RootMovesOnlyOnInsert ==
    /\ [](( Serving /\ ~Fresh ) =>
            LET r == GetAllEntriesOutcome(mem, fsize, rt)
            IN  r.st = "ok" /\ \A e \in BagToSet(stored) : \E n \in DOMAIN r.res : r.res[n] = e)
    /\ [][ /\ ninserts' = ninserts => get_root_addr(mem') = get_root_addr(mem)
           /\ (ninserts' # ninserts /\ Serving /\ Fresh) =>
                  /\ get_root_addr(mem') = fsize
                  /\ fsize' = fsize + block_size
                  /\ block_type_(mem', fsize) = LeafBlock
           /\ (ninserts' # ninserts /\ Serving /\ ~Fresh
                 /\ ~is_full(mem, NodeAt(get_root_addr(mem)))) =>
                  get_root_addr(mem') = get_root_addr(mem)
           /\ (get_root_addr(mem') # get_root_addr(mem) /\ ~Fresh) =>
                  LET new == get_root_addr(mem')
                      h == get_node_handler(mem', TheHandle, new)
                  IN  /\ new = fsize' - block_size
                      /\ new > fsize
                      /\ block_type_(mem', new) = InnerBlock
                      /\ get_count(mem', h) = 2
                      /\ get_elem_value(mem', h, 0) = get_root_addr(mem)
                      /\ get_elem_value(mem', h, 1) >= fsize
         ]_vars

\* the root has been split twice: it is the seventh block of the file
C15_Witness ==
    /\ Serving
    /\ get_root_addr(mem) = 6 * block_size

\* the nodes of the tree the file m of size sz holds
NodesOf(m, sz) ==
    IF get_root_addr(m) = INVALID_ROOT_ADDR THEN {}
    ELSE Nodes(m, sz, TheHandle, get_root_addr(m), MaxDepth)

\* C16: allocation is append-only.  allocate_block returns the file size
\* before the call, a positive multiple of the block size, and grows the file
\* by exactly one block, leaving the bytes before it as they were.  The file
\* never shrinks, only an Insert changes its size, and the nodes an Insert adds
\* to the tree are exactly the blocks it appended: no block is handed out twice.
C16_AllocationAppendsOnly ==
    /\ [](Serving =>
            LET a == allocate_block(rt, mem, fsize)
            IN  /\ a.block = fsize
                /\ a.block > 0
                /\ a.block % block_size = 0
                /\ a.sz = fsize + block_size
                /\ Len(a.m) * WordBytes = a.sz
                /\ SubSeq(a.m, 1, Len(mem)) = mem)
    /\ [][ /\ fsize' >= fsize
           /\ Len(mem') >= Len(mem)
           /\ fsize' % block_size = 0
           /\ (fexists /\ ninserts' = ninserts) => fsize' = fsize
           /\ (Serving /\ ninserts' # ninserts) =>
                  NodesOf(mem', fsize') \ NodesOf(mem, fsize) =
                      { b \in fsize..(fsize' - 1) : b % block_size = 0 }
         ]_vars

\* the file holds MaxBlocks blocks and a Delete has taken an entry out
C16_Witness ==
    /\ Serving
    /\ fsize = MaxBlocks * block_size
    /\ ndeletes = 1

\* the offsets of the node blocks of the file: every block but block 0
NodeBlocks == { b \in block_size..(fsize - 1) : b % block_size = 0 }

\* C17: the in_file_addr_ field of every node block is the file offset of the
\* block, from its allocation on and through every clear and refill of a
\* split, so a node's in_file_addr_ equals the header's root offset exactly
\* when the node is the root.
C17_SelfOffsetIsBlockOffset ==
    Serving =>
        /\ \A b \in NodeBlocks : get_in_file_addr(mem, NodeAt(b)) = b
        /\ TreeNodes \subseteq NodeBlocks
        /\ \A a \in TreeNodes :
              (get_in_file_addr(mem, NodeAt(a)) = get_root_addr(mem)) <=>
                  (a = get_root_addr(mem))

\* the first leaf of the file, once the root, has been cleared and refilled
\* by a split and now lies below an inner root
C17_Witness ==
    /\ Serving
    /\ RootIsInner
    /\ block_size \in TreeNodes
    /\ CountOf(block_size) >= 1

\* C18: after a Delete that returns true, the entry every inner node holds
\* for a non-empty child is that child's covering MBR: the leaf's parent
\* entry was rewritten to the leaf's new MBR, and so on upward.  (No entry
\* was deleted before, so every entry was the covering MBR before the call.)
C18_DeleteRewritesAncestors ==
    [][ (Serving /\ ndeletes = 0 /\ ndeletes' = 1 /\ running') =>
            \A a \in NodesOf(mem', fsize') :
                LET h == get_node_handler(mem', TheHandle, a)
                IN  ~IsLeafBlock(mem', h) =>
                        \A i \in 0..(get_count(mem', h) - 1) :
                            LET c == get_node_handler(mem', TheHandle,
                                                      get_elem_value(mem', h, i))
                            IN  get_node_mbr_pre(mem', c) =>
                                    get_elem_key(mem', h, i) = get_node_mbr(mem', c)
      ]_vars

\* what FindLeaf finds for key from the root of the file
FindFromRoot(key, oob) ==
    FindLeaf(mem, fsize, rt, NodeAt(get_root_addr(mem)), key, oob, MaxDepth)

\* C19: when the entry Delete finds is the only one of its leaf (the root or
\* not), Delete returns true without an assertion firing, the leaf is left in
\* place with count 0, and GetAllEntries no longer returns the entry.
C19_DeleteLastEntryOfLeaf ==
    (Serving /\ ~Fresh) =>
        \A k \in Keys, oob \in OobOutcomes :
            LET f == FindFromRoot(k, oob)
                leaf == Back(f.path)[1]
                d == DeleteOutcome(mem, fsize, rt, k, oob)
                g == GetAllEntriesOutcome(d.m, fsize, rt)
            IN  (f.st = "ok" /\ f.path # <<>> /\ CountOf(leaf) = 1) =>
                    /\ d.st = "ok"
                    /\ d.ret
                    /\ get_count(d.m, NodeAt(leaf)) = 0
                    /\ g.st = "ok"
                    /\ BagOfSeq(g.res) = stored (-) SetToBag({d.removed[1]})

\* C20: at every inner node of ChooseLeaf's descent the entry descended into
\* minimises enlargementCost(entry.key, key) = area(union(entry.key, key)) -
\* area(entry.key) over the entries of the node; among entries of equal cost
\* it has the smallest area, and among those the lowest index.
C20_ChooseLeafMinimisesCost ==
    (Serving /\ ~Fresh) =>
        \A k \in Keys :
            \A c \in ChooseLeaf(mem, fsize, rt, NodeAt(get_root_addr(mem)), k, MaxDepth) :
                /\ c.st = "ok"
                /\ \A n \in 1..(Len(c.path) - 1) :
                      LET h == NodeAt(c.path[n][1])
                          i == c.path[n][2]
                          cost(e) == enlargement(get_elem_key(mem, h, e), k)
                                       - area(get_elem_key(mem, h, e))
                          size_of(e) == area(get_elem_key(mem, h, e))
                      IN  \A j \in 0..(get_count(mem, h) - 1) :
                              \/ cost(i) < cost(j)
                              \/ /\ cost(i) = cost(j)
                                 /\ \/ size_of(i) < size_of(j)
                                    \/ size_of(i) = size_of(j) /\ i <= j

\* the leaves of the tree that are full: the nodes the next Insert may split
FullLeaves == { a \in TreeNodes : IsLeafNode(a) /\ is_full(mem, NodeAt(a)) }

\* the items pickseed works on when the leaf at a is split on inserting key k:
\* the leaf's entries in slot order, then the new entry
WholeOf(a, k) ==
    [n \in 1..CountOf(a) |-> get_elem_pair(mem, NodeAt(a), n - 1)]
        \o << [key |-> k, value |-> ninserts + 1] >>

\* the seed pair pickseed takes from those items
SeedsOf(a, k) ==
    PickSeedsFrom(WholeOf(a, k), 1, 2, 1, 2,
                  enlargement(WholeOf(a, k)[1].key, WholeOf(a, k)[2].key)
                    - area(WholeOf(a, k)[1].key) - area(WholeOf(a, k)[2].key))

\* C21: in the distribution step of a split the picked item goes to the group
\* whose covering MBR needs the smaller enlargement cost to take it; on equal
\* costs to the group whose MBR has the smaller area; on equal areas to G1.
\* Stated for the first item picked after the seeds, in every full leaf.
C21_DistributionPrefersCheaperGroup ==
    Serving =>
        \A a \in FullLeaves, k \in Keys :
            LET whole == WholeOf(a, k)
                seeds == SeedsOf(a, k)
                mbr1 == whole[seeds[1]].key
                mbr2 == whole[seeds[2]].key
                rest == RemoveAt(RemoveAt(whole, seeds[2]), seeds[1])
                b == PickNext(rest, mbr1, mbr2, 1,
                              [pick |-> 0, maxdiff |-> 0, exp1 |-> 0, exp2 |-> 0])
                item == rest[b.pick]
                cost1 == enlargement(mbr1, item.key) - area(mbr1)
                cost2 == enlargement(mbr2, item.key) - area(mbr2)
                toG1 == \/ cost1 < cost2
                        \/ cost1 = cost2 /\ area(mbr1) <= area(mbr2)
                G1 == pickseed(mem, NodeAt(a), whole[Len(whole)])[1]
            IN  rest # <<>> => (toG1 <=> \E n \in DOMAIN G1 : G1[n] = item)

\* C22: the seeds of a split are the pair (i, j), i < j, of the items (the
\* node's entries in slot order, then the new entry) with the largest
\* area(union) - area(e_i) - area(e_j), and among the pairs with that value
\* the lowest in lexicographic order.
C22_SeedsMaximiseWaste ==
    Serving =>
        \A a \in FullLeaves, k \in Keys :
            LET whole == WholeOf(a, k)
                seeds == SeedsOf(a, k)
                waste(i, j) == enlargement(whole[i].key, whole[j].key)
                                 - area(whole[i].key) - area(whole[j].key)
            IN  /\ seeds[1] \in DOMAIN whole /\ seeds[2] \in DOMAIN whole
                /\ seeds[1] < seeds[2]
                /\ pickseed(mem, NodeAt(a), whole[Len(whole)])[1][1] = whole[seeds[1]]
                /\ pickseed(mem, NodeAt(a), whole[Len(whole)])[2][1] = whole[seeds[2]]
                /\ \A i \in DOMAIN whole, j \in DOMAIN whole :
                      i < j =>
                        \/ waste(i, j) < waste(seeds[1], seeds[2])
                        \/ /\ waste(i, j) = waste(seeds[1], seeds[2])
                           /\ \/ seeds[1] < i
                              \/ seeds[1] = i /\ seeds[2] <= j

\* a full leaf the next Insert may split, where two different pairs of items
\* have the largest waste
C22_Witness ==
    /\ Serving
    /\ \E a \in FullLeaves, k \in Keys :
          LET whole == WholeOf(a, k)
              seeds == SeedsOf(a, k)
              waste(i, j) == enlargement(whole[i].key, whole[j].key)
                               - area(whole[i].key) - area(whole[j].key)
          IN  \E i \in DOMAIN whole, j \in DOMAIN whole :
                  /\ i < j
                  /\ <<i, j>> # seeds
                  /\ waste(i, j) = waste(seeds[1], seeds[2])

\* the entries of the node at addr in the file m, in slot order
EntriesIn(m, addr) ==
    [n \in 1..get_count(m, get_node_handler(m, TheHandle, addr)) |->
        get_elem_pair(m, get_node_handler(m, TheHandle, addr), n - 1)]

\* C23: when a full leaf is split on inserting an entry, the two groups
\* pickseed returns partition the leaf's entries plus the new one (as bags),
\* each group has between 1 and capacity entries, the old block is rewritten
\* with G2, and the block allocated first is a leaf whose in_file_addr_ is its
\* own offset and whose entries are G1; every block the Insert appends holds
\* between 1 and capacity entries, and no Insert aborts on an assertion.
C23_SplitPartitionsEntries ==
    Serving =>
        \A k \in Keys :
            LET kvp == [key |-> k, value |-> ninserts + 1]
            IN  /\ Fresh => \A r \in InsertOutcomes(mem, fsize, rt, kvp) : r.st = "ok"
                /\ \A a \in FullLeaves :
                      \A G \in { pickseed(mem, NodeAt(a), kvp) } :
                          /\ BagOfSeq(G[1] \o G[2]) = BagOfSeq(WholeOf(a, k))
                          /\ Len(G[1]) + Len(G[2]) = CountOf(a) + 1
                          /\ Len(G[1]) \in 1..get_entry_capacity(NodeAt(a))
                          /\ Len(G[2]) \in 1..get_entry_capacity(NodeAt(a))
                /\ ~Fresh =>
                      \A c \in ChooseLeaf(mem, fsize, rt, NodeAt(get_root_addr(mem)),
                                          k, MaxDepth) :
                          /\ c.st = "ok"
                          /\ \A leaf \in { Back(c.path)[1] },
                                r \in { split(mem, fsize, rt, c.path, kvp, <<>>, FALSE) } :
                                 /\ r.st = "ok"
                                 /\ leaf \in FullLeaves =>
                                      /\ r.sz >= fsize + block_size
                                      /\ EntriesIn(r.m, leaf) = pickseed(mem, NodeAt(leaf), kvp)[2]
                                      /\ EntriesIn(r.m, fsize) = pickseed(mem, NodeAt(leaf), kvp)[1]
                                      /\ block_type_(r.m, fsize) = LeafBlock
                                      /\ \A b \in { fsize + n * block_size :
                                                       n \in 0..(((r.sz - fsize) \div block_size) - 1) } :
                                            /\ Rd(r.m, b + 16) = b
                                            /\ Rd(r.m, b + 8) \in
                                                 1..get_entry_capacity(
                                                      get_node_handler(r.m, TheHandle, b))

\* a tree that has split and holds a full leaf below the root, which the next
\* Insert may split
C23_Witness ==
    /\ Serving
    /\ RootIsInner
    /\ \E a \in FullLeaves : a # get_root_addr(mem)

\* the number of levels below the node at addr in the file m of size sz
RECURSIVE LevelIn(_, _, _, _)
LevelIn(m, sz, addr, fuel) ==
    IF ~get_address_ok(TheHandle, sz, addr) THEN 0
    ELSE IF block_type_(m, addr) = LeafBlock \/ fuel = 0 \/ Rd(m, addr + 8) <= 0 THEN 0
    ELSE LET h == get_node_handler(m, TheHandle, addr)
             below == { LevelIn(m, sz, get_elem_value(m, h, i), fuel - 1) :
                        i \in 0..(get_count(m, h) - 1) }
         IN  1 + (CHOOSE x \in below : \A y \in below : x >= y)

\* C24: a step that moves the root of a tree to another block is a root
\* split: the new root is a freshly allocated inner block with exactly two
\* entries, whose children are the old root (at its old offset) and a freshly
\* allocated sibling of the old root's type; each entry's key is the covering
\* MBR of its child, and the tree is one level higher than before.
C24_RootSplitMakesTwoEntryRoot ==
    [][ (Serving /\ ~Fresh /\ running'
          /\ get_root_addr(mem') # get_root_addr(mem)) =>
            \A old \in { get_root_addr(mem) }, new \in { get_root_addr(mem') } :
                \A h \in { get_node_handler(mem', TheHandle, new) } :
                    /\ new >= fsize /\ new < fsize'
                    /\ block_type_(mem', new) = InnerBlock
                    /\ get_count(mem', h) = 2
                    /\ get_elem_value(mem', h, 0) = old
                    /\ get_elem_value(mem', h, 1) >= fsize
                    /\ get_elem_value(mem', h, 1) < new
                    /\ block_type_(mem', get_elem_value(mem', h, 1)) = block_type_(mem, old)
                    /\ block_type_(mem', old) = block_type_(mem, old)
                    /\ \A i \in 0..1 :
                          get_elem_key(mem', h, i) =
                              get_node_mbr(mem', get_node_handler(mem', TheHandle,
                                                     get_elem_value(mem', h, i)))
                    /\ LevelIn(mem', fsize', new, MaxDepth + 1)
                          = LevelIn(mem, fsize, old, MaxDepth) + 1
      ]_vars

\* the root is an inner node with two entries whose first child is an inner
\* node: the root that a split of an inner root made
C24_Witness ==
    /\ Serving
    /\ RootIsInner
    /\ CountOf(get_root_addr(mem)) = 2
    /\ ~IsLeafNode(ChildOf(get_root_addr(mem), 0))
    /\ ~IsLeafNode(ChildOf(get_root_addr(mem), 1))

\* every inner entry of the tree in the file m is the covering MBR of its child
TightIn(m, sz) ==
    \A a \in NodesOf(m, sz) :
        \A h \in { get_node_handler(m, TheHandle, a) } :
            ~IsLeafBlock(m, h) =>
                \A i \in 0..(get_count(m, h) - 1) :
                    \A c \in { get_node_handler(m, TheHandle, get_elem_value(m, h, i)) } :
                        /\ get_node_mbr_pre(m, c)
                        /\ get_elem_key(m, h, i) = get_node_mbr(m, c)

\* C25: if every inner entry is its child's covering MBR before an Insert,
\* the Insert returns and every inner entry is its child's covering MBR after
\* it, whether it splits nothing, splits below the root or splits the root,
\* and wherever the upward propagation stopped.
C25_InsertKeepsEntriesTight ==
    (Serving /\ TightIn(mem, fsize)) =>
        \A k \in Keys :
            \A r \in InsertOutcomes(mem, fsize, rt, [key |-> k, value |-> ninserts + 1]) :
                r.st = "ok" /\ TightIn(r.m, r.sz)

\* a tree of three levels whose inner entries are all tight
C25_Witness ==
    /\ Serving
    /\ HasInnerBelowRoot
    /\ TightIn(mem, fsize)

\* C26: in every reachable state each inner entry's key contains, on every
\* axis, every key stored in the leaves below its child, tight or not: the
\* condition under which the overlap pruning of search and the containment
\* pruning of FindLeaf skip no stored entry.
C26_InnerEntriesCoverSubtree ==
    Serving =>
        \A a \in TreeNodes :
            ~IsLeafNode(a) =>
                \A i \in 0..(CountOf(a) - 1) :
                    \A ek \in { get_elem_key(mem, NodeAt(a), i) } :
                        \A k \in LeafKeys(mem, fsize, TheHandle, ChildOf(a, i), MaxDepth) :
                            KeyGe(ek, k)

\* after a Delete an inner entry is larger than the union of the keys below it
C26_Witness ==
    /\ Serving
    /\ ndeletes = 1
    /\ \E a \in TreeNodes :
          /\ ~IsLeafNode(a)
          /\ \E i \in 0..(CountOf(a) - 1) :
                /\ LeafKeys(mem, fsize, TheHandle, ChildOf(a, i), MaxDepth) # {}
                /\ get_elem_key(mem, NodeAt(a), i) #
                       UnionMBR(LeafKeys(mem, fsize, TheHandle, ChildOf(a, i), MaxDepth))

\* the leaves below the node at a that a descent through the inner entries
\* overlapping q reaches
RECURSIVE OverlapLeaves(_, _, _)
OverlapLeaves(a, q, fuel) ==
    IF ~get_address_ok(TheHandle, fsize, a) THEN {}
    ELSE IF IsLeafNode(a) THEN {a}
    ELSE IF fuel = 0 THEN {}
    ELSE UNION { OverlapLeaves(ChildOf(a, i), q, fuel - 1) :
                 i \in { n \in 0..(CountOf(a) - 1) :
                            IsOverlap(get_elem_key(mem, NodeAt(a), n), q) } }

\* C27: Comprise_Search descends into an inner entry exactly when the entry's
\* key overlaps the query and emits a leaf entry exactly when the query
\* contains the entry's key: its result is the entries, contained in the
\* query, of the leaves reached through overlapping entries, each once, and
\* that is every stored entry the query contains.
C27_CompriseDescendsOnOverlap ==
    (Serving /\ ~Fresh) =>
        \A q \in Keys, oob \in OobOutcomes :
            \A r \in { SearchOutcome(mem, fsize, rt, q, "comprise", oob) } :
                /\ r.st = "ok"
                /\ { r.res[n] : n \in DOMAIN r.res } =
                      UNION { { get_elem_pair(mem, NodeAt(l), i) :
                                  i \in { n \in 0..(CountOf(l) - 1) :
                                             KeyGe(q, get_elem_key(mem, NodeAt(l), n)) } } :
                              l \in OverlapLeaves(get_root_addr(mem), q, MaxDepth) }
                /\ Len(r.res) = Cardinality({ r.res[n] : n \in DOMAIN r.res })
                /\ BagOfSeq(r.res) = ScanComprise(q)

\* an entry of an inner root overlaps a query without containing it, and a
\* key stored below that entry lies inside the query
C27_Witness ==
    /\ Serving
    /\ RootIsInner
    /\ \E q \in Keys, i \in 0..(CountOf(get_root_addr(mem)) - 1) :
          /\ IsOverlap(get_elem_key(mem, NodeAt(get_root_addr(mem)), i), q)
          /\ ~KeyGe(get_elem_key(mem, NodeAt(get_root_addr(mem)), i), q)
          /\ \E k \in LeafKeys(mem, fsize, TheHandle,
                                ChildOf(get_root_addr(mem), i), MaxDepth) : KeyGe(q, k)

\* the leaves below the node at a that a descent through the inner entries
\* whose key contains k reaches
RECURSIVE ContainLeaves(_, _, _)
ContainLeaves(a, k, fuel) ==
    IF ~get_address_ok(TheHandle, fsize, a) THEN {}
    ELSE IF IsLeafNode(a) THEN {a}
    ELSE IF fuel = 0 THEN {}
    ELSE UNION { ContainLeaves(ChildOf(a, i), k, fuel - 1) :
                 i \in { n \in 0..(CountOf(a) - 1) :
                            KeyGe(get_elem_key(mem, NodeAt(a), n), k) } }

\* C28: FindLeaf finds the target exactly when a leaf reached through inner
\* entries whose key contains the target holds an entry with that key.  On
\* success the path starts at the root, every inner frame names an entry that
\* contains the target and points to the next frame's node, and the last
\* frame names a leaf slot whose key equals the target; on failure the path
\* is empty.
C28_FindLeafBacktracks ==
    (Serving /\ ~Fresh) =>
        \A k \in Keys, oob \in OobOutcomes :
            \A f \in { FindFromRoot(k, oob) } :
                /\ f.st = "ok"
                /\ (f.path # <<>>) <=>
                      \E l \in ContainLeaves(get_root_addr(mem), k, MaxDepth) :
                          \E i \in 0..(CountOf(l) - 1) :
                              KeyEq(k, get_elem_key(mem, NodeAt(l), i))
                /\ f.path # <<>> =>
                      /\ f.path[1][1] = get_root_addr(mem)
                      /\ \A n \in 1..(Len(f.path) - 1) :
                            /\ f.path[n][1] \in TreeNodes
                            /\ ~IsLeafNode(f.path[n][1])
                            /\ f.path[n][2] \in 0..(CountOf(f.path[n][1]) - 1)
                            /\ KeyGe(get_elem_key(mem, NodeAt(f.path[n][1]), f.path[n][2]), k)
                            /\ ChildOf(f.path[n][1], f.path[n][2]) = f.path[n + 1][1]
                      /\ \A last \in { Back(f.path) } :
                            /\ last[1] \in TreeNodes
                            /\ IsLeafNode(last[1])
                            /\ last[2] \in 0..(CountOf(last[1]) - 1)
                            /\ KeyEq(k, get_elem_key(mem, NodeAt(last[1]), last[2]))

\* FindLeaf finds a key below a later entry of the root after an earlier
\* entry that contains the key failed
C28_Witness ==
    /\ Serving
    /\ RootIsInner
    /\ \E k \in Keys :
          \A f \in { FindFromRoot(k, "zero") } :
              /\ f.st = "ok"
              /\ Len(f.path) >= 2
              /\ \E i \in 0..(f.path[1][2] - 1) :
                    KeyGe(get_elem_key(mem, NodeAt(get_root_addr(mem)), i), k)

\* the offsets of the blocks after the index header
BlocksOfFile == { n * block_size : n \in 1..((fsize \div block_size) - 1) }

\* C29: with a caller's value size V that is not 8, every handler the engine
\* makes for a block of the file, the blocks a split or a root promotion
\* allocated included, has slot value size V when the block is a leaf and 8
\* when it is an inner node, and capacity (B - 24) \div (K + slot value size);
\* and the bytes of the file are laid out with that stride: a leaf's slots
\* hold stored entries, an inner node's slots hold the offset of a node block
\* and a key that contains the keys of that block.
C29_SlotSizeByNodeKind ==
    (running /\ rt = WideHandle) =>
        \A a \in BlocksOfFile :
            \A h \in { get_node_handler(mem, rt, a) } :
                LET leaf == Rd(mem, a) = LeafBlock
                    slot == IF leaf THEN 2 * value_size ELSE SizeofU64
                    cap == (block_size - SizeofNodeHeader) \div (key_size + slot)
                    at(i) == a + SizeofNodeHeader + i * (key_size + slot)
                    keyAt(off) == SubSeq(mem, W(off), W(off) + 2 * Dimensions - 1)
                    slotOf(c) == IF Rd(mem, c) = LeafBlock THEN 2 * value_size ELSE SizeofU64
                IN  /\ h.value_size_ = slot
                    /\ get_pair_size(h) = key_size + slot
                    /\ get_entry_capacity(h) = cap
                    /\ Rd(mem, a + 8) <= cap
                    /\ \A i \in 0..(Rd(mem, a + 8) - 1) :
                          /\ get_elem_ptr(h, i) = at(i)
                          /\ leaf =>
                                [key |-> keyAt(at(i)), value |-> Rd(mem, at(i) + key_size)]
                                    \in BagToSet(stored)
                          /\ ~leaf =>
                                \A c \in { Rd(mem, at(i) + key_size) } :
                                    /\ c \in BlocksOfFile
                                    /\ Rd(mem, c + 16) = c
                                    /\ \A j \in 0..(Rd(mem, c + 8) - 1) :
                                          KeyGe(keyAt(at(i)),
                                                keyAt(c + SizeofNodeHeader
                                                        + j * (key_size + slotOf(c))))

\* a file of wide values with a full leaf and a full inner node below a root
C29_Witness ==
    /\ running /\ rt = WideHandle
    /\ \E a \in BlocksOfFile : Rd(mem, a) = LeafBlock /\ Rd(mem, a + 8) = 2
    /\ \E a \in BlocksOfFile :
          /\ Rd(mem, a) = InnerBlock /\ Rd(mem, a + 8) = 2
          /\ a # get_root_addr(mem)

====
